---------------------------- MODULE Spec2Model ----------------------------
(***************************************************************************)
(* Financial Document Q&A Assistant: the Streamlit session of main.py, the *)
(* index build and question answering of qa_pipeline.py, and the PDF and   *)
(* Excel/CSV extractors.                                                   *)
(*                                                                         *)
(* Five specifications share the variables:                                 *)
(*   Spec         the UI session (main.py) over the persisted collection   *)
(*   SpecIndex    create_vector_db on chunk texts                          *)
(*   SpecExtract  extract_from_pdf and extract_from_excel                  *)
(*   SpecRag      process_question_with_rag                                *)
(*   SpecRender   _df_to_text on tables of character strings               *)
(***************************************************************************)
EXTENDS Integers, Sequences, FiniteSets, TLC

VARIABLES
    \* ---- main.py: one Streamlit session ----
    file,            \* value of st.file_uploader: NoFile or [name, content]
    session_state,   \* st.session_state
    selected_model,  \* sidebar selectbox, None when ollama lists no model
    cache,           \* entries of st.cache_resource for cached_create_vector_db
    collection,      \* entries of the persisted Chroma collection "financial_rag"
    builds,          \* number of create_vector_db calls made so far
    rag_call,        \* arguments and context of the last process_question_with_rag call
    last_error,      \* the st.error shown by the last script run, "" if none
    \* ---- qa_pipeline.py: one call of create_vector_db ----
    documents,       \* the Documents the call was given, <<>> before the call
    chunks,          \* the chunks the call built and annotated
    \* ---- pdf_extraction.py, excel_extraction.py: one extraction call ----
    ext_pc,          \* position in the call: "idle" before it, "returned" or
                     \* "raised" after it
    uploaded_file,   \* the argument of the call
    tmp_exists,      \* whether the temp file of the call is on disk
    tmp_created,     \* whether the call has created its temp file
    failures,        \* the failure points hit during the call
    ran,             \* the PDF strategies run so far, in order
    strategy_docs,   \* what each PDF strategy returned
    docs,            \* the local list `docs` of the call
    ext_result,      \* the list the call returned
    \* ---- qa_pipeline.py: one call of process_question_with_rag ----
    rag_pc,          \* position in the call: "idle" before it, "returned" or
                     \* "raised" after it
    vector_db,       \* the index argument: None, or an index of `count` chunks
    question,        \* the question argument
    queries,         \* the queries the retriever runs, in order
    retrieved,       \* the chunks each query run so far retrieved
    context,         \* the merged chunks handed to the answer prompt
    rag_failure,     \* the step that raised inside the call, None if none
    rag_result,      \* what the call returned
    \* ---- excel_extraction.py: one call of _df_to_text ----
    render_pc,       \* "idle" before the call, "returned" after it
    render_df,       \* the DataFrame argument
    render_title,    \* the title argument
    render_text      \* the string the call returned

uiVars == <<file, session_state, selected_model, cache, collection, builds,
            rag_call, last_error>>

indexVars == <<documents, chunks>>

extractVars == <<ext_pc, uploaded_file, tmp_exists, tmp_created, failures, ran,
                 strategy_docs, docs, ext_result>>

ragVars == <<rag_pc, vector_db, question, queries, retrieved, context,
             rag_failure, rag_result>>

renderVars == <<render_pc, render_df, render_title, render_text>>

vars == <<uiVars, indexVars, extractVars, ragVars, renderVars>>

\* What an action of the UI session leaves alone
outsideUi == <<indexVars, extractVars, ragVars, renderVars>>

\* What create_vector_db leaves alone
outsideIndex == <<uiVars, extractVars, ragVars, renderVars>>

\* What an extraction call leaves alone
outsideExtract == <<uiVars, indexVars, ragVars, renderVars>>

\* What a process_question_with_rag call leaves alone
outsideRag == <<uiVars, indexVars, extractVars, renderVars>>

\* What a _df_to_text call leaves alone
outsideRender == <<uiVars, indexVars, extractVars, ragVars>>

None == "None"

-----------------------------------------------------------------------------
(* Bounds of the UI model *)
MaxBuilds == 3
MaxMessages == 4

(* Bounds of the create_vector_db model *)
MaxFragments == 3
MaxDocs == 2
MaxPieces == 2

(* Bounds of the extraction model *)
MaxPages == 2
MaxRows == 450
MaxCsvRows == 150
MaxCols == 2

(* Bounds of the process_question_with_rag model *)
MaxLines == 4
MaxChunks == 101

(* Bounds of the _df_to_text model *)
MaxTableRows == 2
MaxTableCols == 2

(***************************************************************************)
(* main.py                                                                 *)
(***************************************************************************)
Names == {"a.pdf", "b.xlsx"}
Contents == {"c1", "c2", "c3"}
Questions == {"q1"}

NoFile == [name |-> None, content |-> None]
Files == [name : Names, content : Contents]

\* main.py:76  file_hash = str(hash(file.read())): a fixed-width digest of
\* contents of any length, so distinct contents may share a hash.
Hash(content) ==
    CASE content = "c1" -> "h1"
      [] content = "c2" -> "h2"
      [] content = "c3" -> "h1"

\* main.py:94  ext = file.name.lower().split(".")[-1]
Ext(name) == IF name = "a.pdf" THEN "pdf" ELSE "xlsx"

NoDb == [src |-> NoFile]
\* The Chroma handle returned by create_vector_db; src is the file whose
\* Documents the build was given.
Handle(f) == [src |-> f]

\* main.py:31-35
InitSession ==
    [messages |-> <<>>, vector_db |-> NoDb, last_uploaded_filename |-> None,
     processing_complete |-> FALSE, file_hash |-> None]

\* Mutant of ResetSession: the chat history is not emptied.
ResetSession_KeepMessages(ss) ==
    [ss EXCEPT !.vector_db = NoDb, !.last_uploaded_filename = None,
               !.processing_complete = FALSE, !.file_hash = None]

\* main.py:55-59 and main.py:139-143
ResetSession(ss) ==
    [ss EXCEPT !.vector_db = NoDb, !.messages = <<>>,
               !.last_uploaded_filename = None,
               !.processing_complete = FALSE, !.file_hash = None]

\* Mutant of IsNewFile: the content hash is not compared.
IsNewFile_NameOnly(ss, f) == ss.last_uploaded_filename # f.name

\* main.py:79-80
IsNewFile(ss, f) ==
    \/ ss.last_uploaded_filename # f.name
    \/ ss.file_hash # Hash(f.content)

\* main.py:75-88 and 137-143: the uploader block of one script run
FileBlock(ss, f) ==
    IF f # NoFile
    THEN IF IsNewFile(ss, f)
         THEN [ss EXCEPT !.last_uploaded_filename = f.name,
                         !.file_hash = Hash(f.content),
                         !.vector_db = NoDb,
                         !.messages = <<>>,
                         !.processing_complete = FALSE]
         ELSE ss
    ELSE IF ss.last_uploaded_filename # None THEN ResetSession(ss) ELSE ss

\* main.py:87  cached_create_vector_db.clear() on a new file
CacheAfterFileBlock(ss, f, c) ==
    IF f # NoFile /\ IsNewFile(ss, f) THEN {} ELSE c

\* main.py:90-91  the Process button is rendered
ProcessButtonShown == file # NoFile /\ ~session_state.processing_complete

\* main.py:147,157  the chat input is rendered
ChatInputShown == session_state.vector_db # NoDb

NoCall == [question |-> None, vector_db |-> NoDb, file |-> NoFile,
           processing_complete |-> FALSE, model |-> None]

\* main.py:111-115  docs_json is the serialised Documents of the file, the cache
\* key is (docs_json, file_hash)
CacheKey(f) == <<f, Hash(f.content)>>

CacheHit(c, f) == \E e \in c : e.key = CacheKey(f)

CachedValue(c, f) == (CHOOSE e \in c : e.key = CacheKey(f)).value

\* qa_pipeline.py:76-81  Chroma.from_documents on the collection named
\* "financial_rag" in PERSIST_DIRECTORY: the collection is opened if it exists,
\* created otherwise, and the new chunks are added to it under fresh ids.
FromDocuments(coll, f, n) == coll \cup {[src |-> f, build |-> n]}

\* The argument of an extraction call before any call is made
NoUpload == [name |-> None, fn |-> None, n_pages |-> 0, enable_ocr |-> FALSE,
             sheets |-> <<>>]

NoStrategyDocs == [pdfplumber |-> <<>>, pypdf |-> <<>>, ocr |-> <<>>, tables |-> <<>>]

\* The DataFrame argument of _df_to_text before any call is made
NoTable == [n_rows |-> 0, columns |-> <<>>]

\* The value of process_question_with_rag before it has returned
NoResult == [type |-> None, text |-> None]

Init ==
    /\ file = NoFile
    /\ session_state = InitSession
    /\ selected_model \in {None, "llama3"}
    /\ cache = {}
    /\ collection = {}
    /\ builds = 0
    /\ rag_call = NoCall
    /\ last_error = ""
    /\ documents = <<>>
    /\ chunks = <<>>
    /\ ext_pc = "idle"
    /\ uploaded_file = NoUpload
    /\ tmp_exists = FALSE
    /\ tmp_created = FALSE
    /\ failures = {}
    /\ ran = <<>>
    /\ strategy_docs = NoStrategyDocs
    /\ docs = <<>>
    /\ ext_result = <<>>
    /\ rag_pc = "idle"
    /\ vector_db = [is_none |-> TRUE, count |-> 0]
    /\ question = None
    /\ queries = <<>>
    /\ retrieved = <<>>
    /\ context = <<>>
    /\ rag_failure = None
    /\ rag_result = NoResult
    /\ render_pc = "idle"
    /\ render_df = NoTable
    /\ render_title = <<>>
    /\ render_text = <<>>

\* A script run that no button or chat input triggered: only the uploader block
\* changes the session (main.py:75-88, 137-143).
PlainRun(f) ==
    /\ session_state' = FileBlock(session_state, f)
    /\ cache' = CacheAfterFileBlock(session_state, f, cache)
    /\ last_error' = ""
    /\ UNCHANGED <<selected_model, collection, builds, rag_call>>
    /\ UNCHANGED outsideUi

\* The user puts a file in the uploader (first upload, or replacing the file).
Upload(f) ==
    /\ f # file
    /\ file' = f
    /\ PlainRun(f)

\* The user removes the file from the uploader.
RemoveFile ==
    /\ file # NoFile
    /\ file' = NoFile
    /\ PlainRun(NoFile)

\* main.py:44-64  "Clear Vector DB" pressed, then the rerun of line 62.
\* deleted: whether delete_collection succeeded (its failure is caught, 52-53).
PressClear(deleted) ==
    /\ collection' = IF session_state.vector_db # NoDb /\ deleted
                     THEN {} ELSE collection
    /\ session_state' = FileBlock(ResetSession(session_state), file)
    /\ cache' = {}
    /\ last_error' = ""
    /\ UNCHANGED <<file, selected_model, builds, rag_call>>
    /\ UNCHANGED outsideUi

\* Mutant of AfterBuildFailure: processing_complete is set before the build is
\* attempted, and stays set when it fails.
AfterBuildFailure_MarkedComplete(ss) == [ss EXCEPT !.processing_complete = TRUE]

\* main.py:115-116,131-133  cached_create_vector_db raised: the assignments of
\* lines 115-116 did not happen, and the handler only reports the failure
AfterBuildFailure(ss) == ss

\* main.py:90-133  "Process Document" pressed.
\*   n_docs   number of Documents the extractor returned
\*   outcome  of create_vector_db: "ok", "embed_failed" (nothing stored) or
\*            "store_failed" (stored tells whether the chunks were written
\*            before the failure)
PressProcess(n_docs, outcome, stored) ==
    /\ ProcessButtonShown
    /\ builds < MaxBuilds
    /\ LET ss == FileBlock(session_state, file)
           c1 == CacheAfterFileBlock(session_state, file, cache)
       IN IF n_docs = 0
          THEN \* main.py:106-108
               /\ session_state' = ss
               /\ cache' = c1
               /\ last_error' = "No data extracted from the file!"
               /\ UNCHANGED <<collection, builds>>
          ELSE IF CacheHit(c1, file)
          THEN \* main.py:115-116, the cached handle is returned
               /\ session_state' = [ss EXCEPT !.vector_db = CachedValue(c1, file),
                                              !.processing_complete = TRUE]
               /\ cache' = c1
               /\ last_error' = ""
               /\ UNCHANGED <<collection, builds>>
          ELSE /\ builds' = builds + 1
               /\ IF outcome = "ok"
                  THEN /\ collection' = FromDocuments(collection, file, builds + 1)
                       /\ cache' = c1 \cup {[key |-> CacheKey(file),
                                            value |-> Handle(file)]}
                       /\ session_state' =
                              [ss EXCEPT !.vector_db = Handle(file),
                                         !.processing_complete = TRUE]
                       /\ last_error' = ""
                  ELSE \* main.py:131-133
                       /\ collection' = IF outcome = "store_failed" /\ stored
                                        THEN FromDocuments(collection, file, builds + 1)
                                        ELSE collection
                       /\ cache' = c1
                       /\ session_state' = AfterBuildFailure(ss)
                       /\ last_error' = "Processing failed"
    /\ UNCHANGED <<file, selected_model, rag_call>>
    /\ UNCHANGED outsideUi

\* main.py:147-183  a question submitted in the chat input.
\*   answer  what process_question_with_rag returned
Ask(q, answer) ==
    /\ ChatInputShown
    /\ Len(session_state.messages) + 2 <= MaxMessages
    /\ LET ss == FileBlock(session_state, file)
           asked == ss.vector_db # NoDb
           called == asked /\ selected_model # None
           m1 == Append(ss.messages, [role |-> "user", content |-> q])
           m2 == IF called /\ answer # ""
                 THEN Append(m1, [role |-> "assistant", content |-> answer])
                 ELSE m1
       IN /\ session_state' = IF asked THEN [ss EXCEPT !.messages = m2] ELSE ss
          /\ rag_call' = IF called
                         THEN [question |-> q, vector_db |-> ss.vector_db,
                               file |-> file,
                               processing_complete |-> ss.processing_complete,
                               model |-> selected_model]
                         ELSE rag_call
          /\ cache' = CacheAfterFileBlock(session_state, file, cache)
    /\ last_error' = ""
    /\ UNCHANGED <<file, selected_model, collection, builds>>
    /\ UNCHANGED outsideUi

Answers == {"", "answer", "Error: failed. Please try rephrasing your question."}

Next ==
    \/ \E f \in Files : Upload(f)
    \/ RemoveFile
    \/ \E deleted \in BOOLEAN : PressClear(deleted)
    \/ \E n_docs \in {0, 1}, outcome \in {"ok", "embed_failed", "store_failed"},
          stored \in BOOLEAN :
          /\ n_docs = 0 => Ext(file.name) = "xlsx"
          /\ PressProcess(n_docs, outcome, stored)
    \/ \E q \in Questions, answer \in Answers : Ask(q, answer)

Spec == Init /\ [][Next]_vars

-----------------------------------------------------------------------------
(* Claims about the UI session *)

\* C2: after a new upload is processed, the collection holds only the chunks of
\* the document that is now uploaded: no entry of an earlier file remains in
\* the collection the questions are answered from.
C2_CollectionHoldsOnlyCurrentFile ==
    session_state.vector_db # NoDb =>
        \A e \in collection : e.src = session_state.vector_db.src

\* C3 as stated: process_question_with_rag is called only when a file is
\* uploaded, that very file has been processed to completion, and the index
\* in the session is the one built from it.
C3_AnsweredAgainstTheUploadedFile ==
    rag_call # NoCall =>
        /\ rag_call.file # NoFile
        /\ rag_call.processing_complete
        /\ rag_call.vector_db # NoDb
        /\ rag_call.vector_db.src = rag_call.file

\* C3 amended: process_question_with_rag is called only when a file is uploaded,
\* processing has completed, and the index in the session was built from a
\* file with the same name and the same content hash as the uploaded one.
C3_AnsweredAgainstSameNameAndHash ==
    rag_call # NoCall =>
        /\ rag_call.file # NoFile
        /\ rag_call.processing_complete
        /\ rag_call.vector_db # NoDb
        /\ rag_call.vector_db.src.name = rag_call.file.name
        /\ Hash(rag_call.vector_db.src.content) = Hash(rag_call.file.content)

\* Witness of C3: a question was answered after an earlier, different file had
\* been processed in the same session.
C3_Witness ==
    /\ rag_call # NoCall
    /\ \E e \in collection : e.src.name # rag_call.file.name

(***************************************************************************)
(* qa_pipeline.py: create_vector_db                                        *)
(* Texts are sequences of one-character strings, so that lower() and the   *)
(* substring test `term in content` are computed and not assumed.          *)
(***************************************************************************)
\* qa_pipeline.py:53-56
CriticalTerms ==
    <<<<"t", "o", "t", "a", "l", " ", "r", "e", "c", "o", "r", "d", "s", ":">>,
      <<"t", "o", "t", "a", "l", " ", "a", "m", "o", "u", "n", "t", ":">>,
      <<"f", "i", "n", "a", "n", "c", "i", "a", "l", " ", "s", "u", "m", "m", "a", "r", "y">>,
      <<"t", "o", "t", "a", "l", ":">>,
      <<"s", "u", "m", ":">>,
      <<"b", "r", "e", "a", "k", "d", "o", "w", "n">>>>

\* qa_pipeline.py:61-63
HighTerms ==
    <<<<"c", "a", "l", "c", "u", "l", "a", "t", "i", "o", "n", ":">>,
      <<"a", "v", "e", "r", "a", "g", "e", ":">>,
      <<"c", "o", "u", "n", "t", ":">>,
      <<"d", "i", "s", "t", "r", "i", "b", "u", "t", "i", "o", "n">>>>

\* qa_pipeline.py:68
MediumTerms ==
    <<<<"r", "e", "c", "o", "r", "d">>,
      <<"r", "o", "w">>,
      <<"d", "a", "t", "a">>>>

\* Pieces of text the chunk texts of the model are made of.
Fragments ==
    {<<"T", "O", "T", "A", "L">>,
     <<":">>,
     <<"T", "o", "t", "a", "l", " ", "R", "e", "c", "o", "r", "d", "s", ":">>,
     <<"t", "o", "t", "a", "l", " ", "a", "m", "o", "u", "n", "t", ":">>,
     <<"F", "i", "n", "a", "n", "c", "i", "a", "l", " ", "S", "u", "m", "m", "a", "r", "y">>,
     <<"s", "u", "m", ":">>,
     <<"B", "R", "E", "A", "K", "D", "O", "W", "N">>,
     <<"C", "a", "l", "c", "u", "l", "a", "t", "i", "o", "n", ":">>,
     <<"A", "V", "E", "R", "A", "G", "E", ":">>,
     <<"c", "o", "u", "n", "t", ":">>,
     <<"d", "i", "s", "t", "r", "i", "b", "u", "t", "i", "o", "n">>,
     <<"R", "e", "c", "o", "r", "d">>,
     <<"R", "o", "w">>,
     <<"d", "a", "t", "a">>,
     <<"x">>,
     <<" ">>}

\* str.lower() on the characters that occur in Fragments
LowerChar(c) ==
    CASE c = "A" -> "a"
      [] c = "B" -> "b"
      [] c = "C" -> "c"
      [] c = "D" -> "d"
      [] c = "E" -> "e"
      [] c = "F" -> "f"
      [] c = "G" -> "g"
      [] c = "K" -> "k"
      [] c = "L" -> "l"
      [] c = "N" -> "n"
      [] c = "O" -> "o"
      [] c = "R" -> "r"
      [] c = "S" -> "s"
      [] c = "T" -> "t"
      [] c = "V" -> "v"
      [] c = "W" -> "w"
      [] OTHER -> c

\* qa_pipeline.py:50  content = chunk.page_content.lower()
Lower(text) == [i \in 1..Len(text) |-> LowerChar(text[i])]

\* Python's `term in content` for strings
Contains(content, term) ==
    \E i \in 1..(Len(content) - Len(term) + 1) :
        SubSeq(content, i, i + Len(term) - 1) = term

\* any(term in content for term in terms)
AnyTermIn(content, terms) ==
    \E k \in 1..Len(terms) : Contains(content, terms[k])

\* Mutant of Classify: the medium test is made before the critical one.
Classify_MediumFirst(page_content) ==
    LET content == Lower(page_content)
    IN IF AnyTermIn(content, MediumTerms)
       THEN [priority |-> "medium", flags |-> {"contains_records"}]
       ELSE IF AnyTermIn(content, CriticalTerms)
       THEN [priority |-> "critical", flags |-> {"contains_totals"}]
       ELSE IF AnyTermIn(content, HighTerms)
       THEN [priority |-> "high", flags |-> {"contains_calculations"}]
       ELSE [priority |-> "low", flags |-> {}]

\* qa_pipeline.py:50-72  the priority and the flag set on one chunk
Classify(page_content) ==
    LET content == Lower(page_content)
    IN IF AnyTermIn(content, CriticalTerms)
       THEN [priority |-> "critical", flags |-> {"contains_totals"}]
       ELSE IF AnyTermIn(content, HighTerms)
       THEN [priority |-> "high", flags |-> {"contains_calculations"}]
       ELSE IF AnyTermIn(content, MediumTerms)
       THEN [priority |-> "medium", flags |-> {"contains_records"}]
       ELSE [priority |-> "low", flags |-> {}]

\* Concatenations of at most n fragments
RECURSIVE TextsUpTo(_)
TextsUpTo(n) ==
    IF n = 0 THEN {<<>>}
    ELSE LET shorter == TextsUpTo(n - 1)
         IN shorter \cup {t \o f : t \in shorter, f \in Fragments}

ChunkTexts == TextsUpTo(MaxFragments) \ {<<>>}

\* Texts of the Documents that split into several chunks
SampleTexts ==
    {<<"T", "O", "T", "A", "L", ":", " ", "5">>,
     <<"R", "o", "w", " ", "1">>,
     <<"x">>}

\* Sequences over S of length 1..n
SeqsUpTo(S, n) == UNION {[1..k -> S] : k \in 1..n}

\* A Document of the model is the sequence of pieces the splitter cuts its
\* page_content into, in their order in the text (qa_pipeline.py:32-43).
SingleChunkInputs == {<<[pieces |-> <<t>>]>> : t \in ChunkTexts}

\* A Document of empty page_content splits into no chunk.
ManyChunkInputs ==
    SeqsUpTo({[pieces |-> ps] : ps \in SeqsUpTo(SampleTexts, MaxPieces) \cup {<<>>}},
             MaxDocs)

\* qa_pipeline.py:43  splitter.split_documents(documents): the pieces of every
\* Document, Documents in input order, each piece keeping its parent's metadata
RECURSIVE split_documents(_, _)
split_documents(doc_list, d) ==
    IF d > Len(doc_list) THEN <<>>
    ELSE [k \in 1..Len(doc_list[d].pieces) |->
              [page_content |-> doc_list[d].pieces[k], doc |-> d]]
         \o split_documents(doc_list, d + 1)

\* Mutant of Annotate: chunk_id counts the chunks of each Document apart.
Annotate_PerDocument(split) ==
    [k \in 1..Len(split) |->
        [page_content |-> split[k].page_content,
         metadata |-> [doc |-> split[k].doc,
                       chunk_id |-> Cardinality({j \in 1..(k - 1) :
                                                    split[j].doc = split[k].doc}),
                       chunk_size |-> Len(split[k].page_content),
                       priority |-> Classify(split[k].page_content).priority,
                       flags |-> Classify(split[k].page_content).flags]]]

\* qa_pipeline.py:46-72  for i, chunk in enumerate(chunks): the metadata set
Annotate(split) ==
    [k \in 1..Len(split) |->
        [page_content |-> split[k].page_content,
         metadata |-> [doc |-> split[k].doc,
                       chunk_id |-> k - 1,
                       chunk_size |-> Len(split[k].page_content),
                       priority |-> Classify(split[k].page_content).priority,
                       flags |-> Classify(split[k].page_content).flags]]]

\* qa_pipeline.py:20-85  create_vector_db(documents), up to the chunks handed to
\* Chroma.from_documents
CreateVectorDb(doc_list) ==
    /\ documents = <<>>
    /\ doc_list # <<>>
    /\ documents' = doc_list
    /\ chunks' = Annotate(split_documents(doc_list, 1))
    /\ UNCHANGED outsideIndex

NextIndex ==
    \/ documents = <<>> /\ \E doc_list \in SingleChunkInputs : CreateVectorDb(doc_list)
    \/ documents = <<>> /\ \E doc_list \in ManyChunkInputs : CreateVectorDb(doc_list)

InitIndex == Init /\ selected_model = None

SpecIndex == InitIndex /\ [][NextIndex]_vars

\* C15: when the index build fails while a document is processed, the failure
\* is reported and the session has no document ready: vector_db is None,
\* processing_complete is False and the chat input is not offered; a document
\* becomes ready only in a later step that makes a build which succeeds, and
\* no question reaches process_question_with_rag before that.
C15_FailedBuildLeavesNoDocumentReady ==
    /\ [](last_error = "Processing failed" =>
             /\ session_state.vector_db = NoDb
             /\ ~session_state.processing_complete
             /\ ~ChatInputShown)
    /\ [][(builds' = builds + 1 /\ session_state'.vector_db = NoDb) =>
              last_error' = "Processing failed"]_vars
    /\ [][(session_state.vector_db = NoDb /\ session_state'.vector_db # NoDb) =>
              (builds' = builds + 1 /\ last_error' = "")]_vars
    /\ [][(session_state.vector_db = NoDb /\ session_state'.vector_db = NoDb) =>
              (rag_call' = rag_call /\ session_state'.messages = <<>>)]_vars

\* Witness of C15: a build failed after its chunks had been written to the
\* collection, and the session has no document ready.
C15_Witness ==
    /\ last_error = "Processing failed"
    /\ file # NoFile
    /\ collection # {}
    /\ session_state.vector_db = NoDb
    /\ ~session_state.processing_complete

\* The name and content hash the session stores are those of the uploaded file
StoredIsUploaded ==
    /\ file # NoFile
    /\ session_state.last_uploaded_filename = file.name
    /\ session_state.file_hash = Hash(file.content)

\* C16: the chat history holds only messages exchanged about the uploaded file
\* (the file being told by its name and content hash): there are messages only
\* while the stored name and hash are those of the uploaded file and its index
\* is ready; in the step in which the uploaded file differs in name or hash
\* from the stored one, the file is removed or the index is cleared, messages
\* is emptied together with vector_db = None and processing_complete = False;
\* messages otherwise only grows, by a user message or by a user message and
\* its answer, so an assistant message directly follows a user message.
C16_MessagesBelongToTheUploadedFile ==
    /\ [](session_state.messages # <<>> =>
             /\ StoredIsUploaded
             /\ session_state.vector_db # NoDb
             /\ session_state.processing_complete)
    /\ [][(\/ /\ file' # NoFile
              /\ \/ session_state.last_uploaded_filename # file'.name
                 \/ session_state.file_hash # Hash(file'.content)
           \/ file' = NoFile /\ file # NoFile
           \/ session_state.vector_db # NoDb /\ session_state'.vector_db = NoDb)
          => /\ session_state'.messages = <<>>
             /\ session_state'.vector_db = NoDb
             /\ ~session_state'.processing_complete]_vars
    /\ [][session_state'.messages # session_state.messages =>
             \/ session_state'.messages = <<>>
             \/ /\ Len(session_state'.messages) \in
                       {Len(session_state.messages) + 1, Len(session_state.messages) + 2}
                /\ SubSeq(session_state'.messages, 1, Len(session_state.messages))
                       = session_state.messages
                /\ session_state'.messages[Len(session_state.messages) + 1].role = "user"
                /\ session_state'.last_uploaded_filename =
                       session_state.last_uploaded_filename
                /\ session_state'.file_hash = session_state.file_hash]_vars
    /\ [](\A i \in 1..Len(session_state.messages) :
             session_state.messages[i].role = "assistant" =>
                 (i > 1 /\ session_state.messages[i - 1].role = "user"))

\* Witness of C16: a question and its answer are in the history of a session
\* that has built an index twice, the history of the earlier one being gone.
C16_Witness ==
    /\ builds >= 2
    /\ Len(session_state.messages) = 2
    /\ session_state.messages[1].role = "user"
    /\ session_state.messages[2].role = "assistant"

-----------------------------------------------------------------------------
(* Claims about create_vector_db *)

HasCritical(text) == AnyTermIn(Lower(text), CriticalTerms)
HasHigh(text) == AnyTermIn(Lower(text), HighTerms)
HasMedium(text) == AnyTermIn(Lower(text), MediumTerms)

\* The text "TOTAL: Row": a critical term together with a medium term
TotalAndRow == <<"T", "O", "T", "A", "L", ":", "R", "o", "w">>

\* C1: every chunk's priority is the first match in the order critical, high,
\* medium, low: critical whenever a critical term is in the lower-cased text,
\* whatever else is there ("total:" with "row" included); high only without a
\* critical term; medium only without a critical or high term; low only when
\* no listed term is present.
C1_PriorityByFirstMatch ==
    \A k \in 1..Len(chunks) :
        LET text == chunks[k].page_content
            p == chunks[k].metadata.priority
        IN /\ p \in {"critical", "high", "medium", "low"}
           /\ HasCritical(text) => p = "critical"
           /\ p = "critical" => HasCritical(text)
           /\ p = "high" <=> (~HasCritical(text) /\ HasHigh(text))
           /\ p = "medium" <=>
                  (~HasCritical(text) /\ ~HasHigh(text) /\ HasMedium(text))
           /\ p = "low" <=>
                  (~HasCritical(text) /\ ~HasHigh(text) /\ ~HasMedium(text))
           /\ text = TotalAndRow => p = "critical"

\* Witness of C1: a chunk holding "total:" and "row" was classified critical.
C1_Witness ==
    \E k \in 1..Len(chunks) :
        /\ chunks[k].page_content = TotalAndRow
        /\ chunks[k].metadata.priority = "critical"

(***************************************************************************)
(* pdf_extraction.py                                                       *)
(***************************************************************************)
\* What page.extract_text() or pytesseract.image_to_string may return for a
\* page: None, or a string given as its characters.
NoneText == [none |-> TRUE, chars |-> <<>>]
Str(cs) == [none |-> FALSE, chars |-> cs]
PageTextValues == {NoneText, Str(<<>>), Str(<<" ">>), Str(<<"a", " ">>)}

\* pdf_extraction.py:18  page.extract_text() or ""
OrEmpty(t) == IF t.none THEN <<>> ELSE t.chars

IsSpace(c) == c \in {" ", "\n", "\t"}

RECURSIVE LStrip(_)
LStrip(cs) ==
    IF cs # <<>> /\ IsSpace(Head(cs)) THEN LStrip(Tail(cs)) ELSE cs

RECURSIVE RStrip(_)
RStrip(cs) ==
    IF cs # <<>> /\ IsSpace(cs[Len(cs)])
    THEN RStrip(SubSeq(cs, 1, Len(cs) - 1)) ELSE cs

\* str.strip()
Strip(cs) == RStrip(LStrip(cs))

\* pdf_extraction.py:20-28  the Document of one page of text
PageDoc(method, i, txt) ==
    [page_content |-> [kind |-> "page_text", chars |-> txt],
     metadata |-> [source |-> "tmp.pdf", page |-> i, method |-> method,
                   char_count |-> Len(txt)]]

\* The page loop shared by the three text strategies (pdf_extraction.py:17-28,
\* 38-49, 58-69): pages i..(stop - 1) are read, a page whose text is blank
\* after strip() gets no Document. stop is the page at which the library
\* raised, or the page count plus one.
RECURSIVE PageLoop(_, _, _, _)
PageLoop(method, texts, i, stop) ==
    IF i >= stop THEN <<>>
    ELSE LET txt == OrEmpty(texts[i])
         IN (IF Strip(txt) # <<>> THEN <<PageDoc(method, i, txt)>> ELSE <<>>)
            \o PageLoop(method, texts, i + 1, stop)

\* pdf_extraction.py:13-32  the exception is caught, docs built so far returned
\* (the underscore of the Python name cannot start a TLA+ name)
text_pdfplumber(texts, fail_at) == PageLoop("pdfplumber", texts, 1, fail_at)

\* pdf_extraction.py:34-53
text_pypdf(texts, fail_at) == PageLoop("pypdf", texts, 1, fail_at)

\* pdf_extraction.py:55-73
text_ocr(texts, fail_at) == PageLoop("ocr", texts, 1, fail_at)

\* A table cell as pdfplumber gives it: None, or a string. " " is a cell of
\* blanks only.
Cells == {None, "", " ", "H1", "H2", "v1", "v2"}

\* Truth value of a cell in `if cell`
Truthy(cell) == cell # None /\ cell # ""

\* pdf_extraction.py:93  str(cell or "").strip()
CleanCell(cell) == IF ~Truthy(cell) \/ cell = " " THEN "" ELSE cell

\* pdf_extraction.py:90  any(cell for cell in row if cell)
RowHasContent(row) == \E i \in 1..Len(row) : Truthy(row[i])

\* pdf_extraction.py:101-103  (i0 is the 0-based index i of the code)
ColName(headers, i0) ==
    IF i0 < Len(headers) THEN headers[i0 + 1] ELSE <<"Col", i0 + 1>>

NoHeaders == <<>>

\* pdf_extraction.py:95  row_idx == 0 and not headers
IsHeaderRow(row_idx, headers) == row_idx = 0 /\ headers = NoHeaders

\* pdf_extraction.py:86-106  the rows rendered for one table; row_idx is 0-based
RECURSIVE TableRows(_, _, _)
TableRows(tbl, row_idx, headers) ==
    IF row_idx >= Len(tbl) THEN <<>>
    ELSE LET row == tbl[row_idx + 1]
             clean_row == [i \in 1..Len(row) |-> CleanCell(row[i])]
         IN IF ~RowHasContent(row)
            THEN TableRows(tbl, row_idx + 1, headers)
            ELSE IF IsHeaderRow(row_idx, headers)
            THEN <<[kind |-> "HEADERS", cells |-> clean_row]>>
                 \o TableRows(tbl, row_idx + 1, clean_row)
            ELSE IF headers # NoHeaders
            THEN <<[kind |-> "qualified",
                    pairs |-> [i \in 1..Len(clean_row) |->
                                  <<ColName(headers, i - 1), clean_row[i]>>]]>>
                 \o TableRows(tbl, row_idx + 1, headers)
            ELSE <<[kind |-> "plain", cells |-> clean_row]>>
                 \o TableRows(tbl, row_idx + 1, headers)

\* pdf_extraction.py:108-120
TableDoc(p, t_idx, rows) ==
    [page_content |-> [kind |-> "table", table_id |-> t_idx, page |-> p,
                       rows |-> rows],
     metadata |-> [source |-> "tmp.pdf", page |-> p, type |-> "table",
                   table_id |-> t_idx, rows |-> Len(rows),
                   method |-> "table_extraction"]]

\* pdf_extraction.py:81-120  the tables of one page, t_idx from 1
RECURSIVE PageTables(_, _, _)
PageTables(tables, p, t_idx) ==
    IF t_idx > Len(tables) THEN <<>>
    ELSE LET tbl == tables[t_idx]
             rows == TableRows(tbl, 0, NoHeaders)
         IN (IF tbl # <<>> /\ rows # <<>>
             THEN <<TableDoc(p, t_idx, rows)>> ELSE <<>>)
            \o PageTables(tables, p, t_idx + 1)

\* pdf_extraction.py:75-124  _tables: pages p..(stop - 1), the exception caught
RECURSIVE TablesLoop(_, _, _)
TablesLoop(page_tables, p, stop) ==
    IF p >= stop THEN <<>>
    ELSE PageTables(page_tables[p], p, 1) \o TablesLoop(page_tables, p + 1, stop)

tables_of(page_tables, fail_at) == TablesLoop(page_tables, 1, fail_at)

\* Tables a page may hold
HeaderTable == << <<"H1", "H2">>, <<"v1", "v2">> >>
LateHeaderTable == << <<None, "">>, <<"H1", "H2">>, <<"v1", " ">> >>
WideRowTable == << <<"H1">>, <<>>, <<"v1", "v2">> >>
BlankTable == << <<None, "">> >>
EmptyTable == <<>>

PageTableValues ==
    {<<>>, <<EmptyTable>>, <<BlankTable>>, <<HeaderTable>>, <<LateHeaderTable>>,
     <<BlankTable, WideRowTable>>}

\* Mutant of NextStrategy: every text strategy is run, whatever the earlier
\* ones returned.
NextStrategy_NoShortCircuit(done, sdocs, enable_ocr) ==
    IF done = <<>> THEN "pdfplumber"
    ELSE LET last == done[Len(done)]
         IN CASE last = "pdfplumber" -> "pypdf"
              [] last = "pypdf" -> IF enable_ocr THEN "ocr" ELSE "tables"
              [] last = "ocr" -> "tables"
              [] OTHER -> "return"

\* pdf_extraction.py:133-138  the step that follows the strategies in `done`:
\* `a or b or c` evaluates b only if a is empty, c only if a and b are
NextStrategy(done, sdocs, enable_ocr) ==
    IF done = <<>> THEN "pdfplumber"
    ELSE LET last == done[Len(done)]
         IN CASE last = "pdfplumber" ->
                     IF sdocs.pdfplumber = <<>> THEN "pypdf" ELSE "tables"
              [] last = "pypdf" ->
                     IF sdocs.pypdf # <<>> THEN "tables"
                     ELSE IF enable_ocr THEN "ocr" ELSE "tables"
              [] last = "ocr" -> "tables"
              [] OTHER -> "return"

\* pdf_extraction.py:133-135  the value of `a or b or c`
TextDocs(sdocs) ==
    IF sdocs.pdfplumber # <<>> THEN sdocs.pdfplumber
    ELSE IF sdocs.pypdf # <<>> THEN sdocs.pypdf
    ELSE sdocs.ocr

\* pdf_extraction.py:142-143
WithFilename(ds, name) ==
    [k \in 1..Len(ds) |->
        [ds[k] EXCEPT !.metadata = [original_filename |-> name] @@ @]]

\* pdf_extraction.py:147-150
NoContentDoc(name) ==
    [page_content |-> [kind |-> "no_text"],
     metadata |-> [source |-> name, error |-> "no_content"]]

\* pdf_extraction.py:154-157 and excel_extraction.py:179-182; e is the message
\* of the exception
ErrorDoc(name, e) ==
    [page_content |-> [kind |-> "error", message |-> e],
     metadata |-> [source |-> name, error |-> e]]

PdfFiles == {"report.pdf"}
WriteOutcomes == {"ok", "open_failed", "write_failed"}

\* pdf_extraction.py:127-130 and excel_extraction.py:61-64: mktemp names a file
\* that does not exist; open() creates it, and either open() or write() may fail
Stage(upload, write) ==
    /\ ext_pc = "idle"
    /\ uploaded_file' = upload
    /\ tmp_exists' = (write # "open_failed")
    /\ tmp_created' = (write # "open_failed")
    /\ failures' = IF write = "ok" THEN {} ELSE {"write_temp"}
    /\ ext_pc' = IF write = "ok" THEN "staged" ELSE "failed"
    /\ UNCHANGED <<ran, strategy_docs, docs, ext_result>>
    /\ UNCHANGED outsideExtract

PdfStage(name, n_pages, enable_ocr, write) ==
    Stage([NoUpload EXCEPT !.name = name, !.fn = "pdf", !.n_pages = n_pages,
                           !.enable_ocr = enable_ocr], write)

IsPdfCall == ext_pc # "idle" /\ uploaded_file.fn = "pdf"

PdfStep == NextStrategy(ran, strategy_docs, uploaded_file.enable_ocr)

\* One text strategy is run: it returns the Documents of the pages before the
\* one it failed on.
TextStrategy(method, result, failed) ==
    /\ IsPdfCall
    /\ ext_pc = "staged"
    /\ PdfStep = method
    /\ ran' = Append(ran, method)
    /\ strategy_docs' = [strategy_docs EXCEPT ![method] = result]
    /\ failures' = IF failed THEN failures \cup {method} ELSE failures
    /\ UNCHANGED <<ext_pc, uploaded_file, tmp_exists, tmp_created, docs, ext_result>>
    /\ UNCHANGED outsideExtract

PageCount == uploaded_file.n_pages

TextPdfplumber(texts, fail_at) ==
    TextStrategy("pdfplumber", text_pdfplumber(texts, fail_at), fail_at <= PageCount)

TextPypdf(texts, fail_at) ==
    TextStrategy("pypdf", text_pypdf(texts, fail_at), fail_at <= PageCount)

TextOcr(texts, fail_at) ==
    TextStrategy("ocr", text_ocr(texts, fail_at), fail_at <= PageCount)

\* pdf_extraction.py:137-143  table extraction, docs.extend, the file name
Tables(page_tables, fail_at) ==
    /\ IsPdfCall
    /\ ext_pc = "staged"
    /\ PdfStep = "tables"
    /\ LET table_docs == tables_of(page_tables, fail_at)
       IN /\ strategy_docs' = [strategy_docs EXCEPT !.tables = table_docs]
          /\ docs' = WithFilename(TextDocs(strategy_docs) \o table_docs,
                                  uploaded_file.name)
    /\ ran' = Append(ran, "tables")
    /\ failures' = IF fail_at <= PageCount THEN failures \cup {"tables"} ELSE failures
    /\ ext_pc' = "extracted"
    /\ UNCHANGED <<uploaded_file, tmp_exists, tmp_created, ext_result>>
    /\ UNCHANGED outsideExtract

\* Mutant of PdfCleanup: the temp file is removed on the success path only.
PdfCleanup_SuccessOnly(exists, failed) == exists /\ failed

\* pdf_extraction.py:158-162  finally: os.remove(tmp), its own failure (the
\* file was never created) swallowed. The value is whether the file remains.
PdfCleanup(exists, failed) == FALSE

\* Mutant of PdfCaught: the failure of the staging is not caught.
PdfCaught_Not(failed) == FALSE

\* pdf_extraction.py:152  except Exception around the body
PdfCaught(failed) == TRUE

\* pdf_extraction.py:147-162  the return and the finally clause
PdfReturn ==
    /\ IsPdfCall
    /\ ext_pc \in {"extracted", "failed"}
    /\ LET failed == ext_pc = "failed"
       IN /\ ext_result' =
                 IF failed
                 THEN IF PdfCaught(failed)
                      THEN <<ErrorDoc(uploaded_file.name, "write_temp")>>
                      ELSE <<>>
                 ELSE IF docs # <<>> THEN docs
                      ELSE <<NoContentDoc(uploaded_file.name)>>
          /\ ext_pc' = IF failed /\ ~PdfCaught(failed) THEN "raised" ELSE "returned"
          /\ tmp_exists' = PdfCleanup(tmp_exists, failed)
    /\ UNCHANGED <<uploaded_file, tmp_created, failures, ran, strategy_docs, docs>>
    /\ UNCHANGED outsideExtract

PagesOf(n) == [1..n -> PageTextValues]

NextPdf ==
    \/ /\ ext_pc = "idle"
       /\ \E name \in PdfFiles, n \in 0..MaxPages, ocr \in BOOLEAN,
             w \in WriteOutcomes :
              PdfStage(name, n, ocr, w)
    \/ /\ IsPdfCall /\ ext_pc = "staged"
       /\ \E texts \in PagesOf(PageCount), fail_at \in 1..(PageCount + 1) :
              TextPdfplumber(texts, fail_at)
    \/ /\ IsPdfCall /\ ext_pc = "staged"
       /\ \E texts \in PagesOf(PageCount), fail_at \in 1..(PageCount + 1) :
              TextPypdf(texts, fail_at)
    \/ /\ IsPdfCall /\ ext_pc = "staged"
       /\ \E texts \in PagesOf(PageCount), fail_at \in 1..(PageCount + 1) :
              TextOcr(texts, fail_at)
    \/ /\ IsPdfCall /\ ext_pc = "staged"
       /\ \E page_tables \in [1..PageCount -> PageTableValues],
             fail_at \in 1..(PageCount + 1) :
              Tables(page_tables, fail_at)
    \/ PdfReturn

(***************************************************************************)
(* excel_extraction.py                                                     *)
(* A table (DataFrame) is its row count and its columns; a column is what  *)
(* the code reads of it: whether its values are numbers or text, whether   *)
(* cells are missing, how many distinct values it holds and how the rows   *)
(* spread over them.                                                       *)
(***************************************************************************)
\* excel_extraction.py:87  len(df) > 100
GroupingThreshold == 100
\* excel_extraction.py:89  nunique() < 20
MaxDistinct == 20
\* excel_extraction.py:156  len(df) > 200
ChunkThreshold == 200
\* excel_extraction.py:157
chunk_size == 200

Min(a, b) == IF a < b THEN a ELSE b

Column(kind, missing, distinct, skewed) ==
    [kind |-> kind, missing |-> missing, distinct |-> distinct, skewed |-> skewed]

\* excel_extraction.py:68-69, 137  the dtype of a column after the read and
\* fillna(""): a table without rows has no typed column, and a number column
\* with a missing cell becomes an object column once "" fills the gap.
Dtype(col, n_rows) ==
    IF n_rows > 0 /\ col.kind = "number" /\ ~col.missing
    THEN "number" ELSE "object"

\* df[col].nunique()
Nunique(col, n_rows) == Min(col.distinct, n_rows)

\* len(group_df) of the g-th group of df.groupby(col), groups in key order:
\* a skewed column has one large group and single-row groups, the others
\* spread the rows evenly.
GroupLen(col, n_rows, g) ==
    LET u == Nunique(col, n_rows)
    IN IF col.skewed
       THEN IF g = 1 THEN n_rows - (u - 1) ELSE 1
       ELSE (n_rows \div u) + (IF g <= n_rows % u THEN 1 ELSE 0)

\* excel_extraction.py:10-55  _df_to_text: "" for an empty table, else the text
\* with the title, the counts and one line per row
df_to_text(n_rows, n_cols, title) ==
    IF n_rows = 0 \/ n_cols = 0
    THEN [kind |-> "empty"]
    ELSE [kind |-> "df_text", title |-> title, total_rows |-> n_rows,
          total_columns |-> n_cols]

\* excel_extraction.py:74-84
CsvCompleteDoc(name, df) ==
    [page_content |-> df_to_text(df.n_rows, Len(df.columns),
                                 [label |-> "Complete CSV Dataset"]),
     metadata |-> [source |-> name, type |-> "csv_complete", rows |-> df.n_rows,
                   columns |-> Len(df.columns), original_filename |-> name]]

\* excel_extraction.py:92-103
CsvGroupDoc(name, df, c, g) ==
    [page_content |-> df_to_text(GroupLen(df.columns[c], df.n_rows, g),
                                 Len(df.columns),
                                 [label |-> "Category Group", col |-> c,
                                  group_name |-> g]),
     metadata |-> [source |-> name, type |-> "csv_group", group_column |-> c,
                   group_value |-> g,
                   rows |-> GroupLen(df.columns[c], df.n_rows, g),
                   original_filename |-> name]]

\* excel_extraction.py:89
Eligible(df, c) ==
    /\ Dtype(df.columns[c], df.n_rows) = "object"
    /\ Nunique(df.columns[c], df.n_rows) < MaxDistinct

\* Mutant of GroupColumns: every eligible column is grouped by (no break).
GroupColumns_All(df) ==
    IF df.n_rows > GroupingThreshold
    THEN {c \in 1..Len(df.columns) : Eligible(df, c)}
    ELSE {}

\* excel_extraction.py:87-89, 104  the columns grouped by: the first eligible
\* one when the table has more than 100 rows (break after it)
GroupColumns(df) ==
    IF df.n_rows > GroupingThreshold
    THEN {c \in 1..Len(df.columns) :
             /\ Eligible(df, c)
             /\ \A b \in 1..(c - 1) : ~Eligible(df, b)}
    ELSE {}

\* Mutant of KeepGroup: single-row groups get a Document too.
KeepGroup_Any(len) == len > 0

\* excel_extraction.py:91  len(group_df) > 1
KeepGroup(len) == len > 1

\* excel_extraction.py:90-103  the group Documents of column c, groups g..u
RECURSIVE GroupDocs(_, _, _, _)
GroupDocs(name, df, c, g) ==
    IF g > Nunique(df.columns[c], df.n_rows) THEN <<>>
    ELSE (IF KeepGroup(GroupLen(df.columns[c], df.n_rows, g))
          THEN <<CsvGroupDoc(name, df, c, g)>> ELSE <<>>)
         \o GroupDocs(name, df, c, g + 1)

\* excel_extraction.py:88-104  for col in df.columns, columns c..last
RECURSIVE AllGroupDocs(_, _, _)
AllGroupDocs(name, df, c) ==
    IF c > Len(df.columns) THEN <<>>
    ELSE (IF c \in GroupColumns(df) THEN GroupDocs(name, df, c, 1) ELSE <<>>)
         \o AllGroupDocs(name, df, c + 1)

\* excel_extraction.py:107  df.select_dtypes(include=['number']).columns
NumericCols(df) ==
    {c \in 1..Len(df.columns) : Dtype(df.columns[c], df.n_rows) = "number"}

\* excel_extraction.py:108-127
SummaryDocs(name, df) ==
    IF NumericCols(df) # {}
    THEN <<[page_content |-> [kind |-> "financial_summary",
                              total_average_count_of |-> NumericCols(df)],
            metadata |-> [source |-> name, type |-> "financial_summary",
                          focus |-> "numerical_aggregates",
                          original_filename |-> name]]>>
    ELSE <<>>

\* excel_extraction.py:66-127  the Documents of a CSV table
CsvDocs(name, df) ==
    <<CsvCompleteDoc(name, df)>> \o AllGroupDocs(name, df, 1) \o SummaryDocs(name, df)

\* excel_extraction.py:142-153
SheetCompleteDoc(name, sheet) ==
    [page_content |-> df_to_text(sheet.n_rows, Len(sheet.columns),
                                 [label |-> "Excel Sheet", sheet |-> sheet.name]),
     metadata |-> [source |-> name, sheet |-> sheet.name,
                   type |-> "excel_sheet_complete", rows |-> sheet.n_rows,
                   columns |-> Len(sheet.columns), original_filename |-> name]]

\* Mutant of ChunkLen: every chunk is given the full chunk size.
ChunkLen_Full(n_rows, i) == chunk_size

\* excel_extraction.py:159  len(df.iloc[i:i+chunk_size])
ChunkLen(n_rows, i) == Min(chunk_size, n_rows - i)

\* excel_extraction.py:160-172  (i is the 0-based start of range(0, len(df), 200))
SheetChunkDoc(name, sheet, i) ==
    [page_content |-> df_to_text(ChunkLen(sheet.n_rows, i), Len(sheet.columns),
                                 [label |-> "Sheet Rows", sheet |-> sheet.name,
                                  from |-> i + 1,
                                  to |-> i + ChunkLen(sheet.n_rows, i)]),
     metadata |-> [source |-> name, sheet |-> sheet.name, type |-> "excel_chunk",
                   chunk_start |-> i + 1,
                   chunk_end |-> i + ChunkLen(sheet.n_rows, i),
                   rows |-> ChunkLen(sheet.n_rows, i),
                   original_filename |-> name]]

\* excel_extraction.py:158  for i in range(0, len(df), chunk_size)
RECURSIVE ChunkDocs(_, _, _)
ChunkDocs(name, sheet, i) ==
    IF i >= sheet.n_rows THEN <<>>
    ELSE <<SheetChunkDoc(name, sheet, i)>> \o ChunkDocs(name, sheet, i + chunk_size)

\* excel_extraction.py:137-172  the Documents of one sheet
SheetDocs(name, sheet) ==
    <<SheetCompleteDoc(name, sheet)>>
    \o (IF sheet.n_rows > ChunkThreshold THEN ChunkDocs(name, sheet, 0) ELSE <<>>)

\* excel_extraction.py:136  for sheet_name, df in sheets.items(), sheets k..last
RECURSIVE WorkbookDocs(_, _, _)
WorkbookDocs(name, sheets, k) ==
    IF k > Len(sheets) THEN <<>>
    ELSE SheetDocs(name, sheets[k]) \o WorkbookDocs(name, sheets, k + 1)

\* excel_extraction.py:61  the suffix decides between the CSV and the Excel path
IsCsv(name) == name = "data.csv"

\* excel_extraction.py:66-172  all Documents of the upload
AllDocs(upload) ==
    IF IsCsv(upload.name)
    THEN CsvDocs(upload.name, upload.sheets[1])
    ELSE WorkbookDocs(upload.name, upload.sheets, 1)

ExcelStage(name, sheets, write) ==
    Stage([NoUpload EXCEPT !.name = name, !.fn = "excel", !.sheets = sheets], write)

IsExcelCall == ext_pc # "idle" /\ uploaded_file.fn = "excel"

\* excel_extraction.py:66-175  the body of the try block after the staging.
\*   built   number of Documents appended to docs when the body ended
\*   failed  whether it ended by an exception (built = 0: the read itself
\*           failed, with both engines for a workbook)
ExcelParse(built, failed) ==
    /\ IsExcelCall
    /\ ext_pc = "staged"
    /\ ~failed => built = Len(AllDocs(uploaded_file))
    /\ docs' = SubSeq(AllDocs(uploaded_file), 1, built)
    /\ failures' = IF failed
                   THEN {IF built = 0 THEN "read" ELSE "render"}
                   ELSE failures
    /\ ext_pc' = IF failed THEN "failed" ELSE "extracted"
    /\ UNCHANGED <<uploaded_file, tmp_exists, tmp_created, ran, strategy_docs,
                   ext_result>>
    /\ UNCHANGED outsideExtract

\* Mutant of ExcelCleanup: the temp file is removed on the success path only.
ExcelCleanup_SuccessOnly(exists, failed) == exists /\ failed

\* excel_extraction.py:183-185  finally: the file is removed if it exists.
\* The value is whether the file remains.
ExcelCleanup(exists, failed) == FALSE

\* Mutant of ErrorResult: the Documents built before the failure are kept.
ErrorResult_KeepDocs(built_docs, name, e) == built_docs \o <<ErrorDoc(name, e)>>

\* excel_extraction.py:177-182  except Exception: the list returned
ErrorResult(built_docs, name, e) == <<ErrorDoc(name, e)>>

\* The message of the exception raised at a failure point
Message(fs) == CHOOSE e \in fs : TRUE

\* excel_extraction.py:175-185  the return and the finally clause
ExcelReturn ==
    /\ IsExcelCall
    /\ ext_pc \in {"extracted", "failed"}
    /\ ext_result' = IF ext_pc = "failed"
                     THEN ErrorResult(docs, uploaded_file.name, Message(failures))
                     ELSE docs
    /\ ext_pc' = "returned"
    /\ tmp_exists' = ExcelCleanup(tmp_exists, ext_pc = "failed")
    /\ UNCHANGED <<uploaded_file, tmp_created, failures, ran, strategy_docs, docs>>
    /\ UNCHANGED outsideExtract

ExcelFiles == {"data.csv", "book.xlsx"}

\* The columns a CSV table of the model may have
CsvColumns ==
    {Column("number", FALSE, MaxDistinct, FALSE), Column("number", TRUE, 3, FALSE)}
    \cup {Column("text", FALSE, d, s) :
              d \in {3, MaxDistinct - 1, MaxDistinct}, s \in BOOLEAN}

CsvTables ==
    {[name |-> "csv", n_rows |-> n, columns |-> cols] :
        n \in 0..MaxCsvRows, cols \in SeqsUpTo(CsvColumns, MaxCols)}

\* The columns a sheet of the model may have
SheetColumns ==
    {<<Column("text", FALSE, 3, FALSE)>>,
     <<Column("text", FALSE, 3, FALSE), Column("number", FALSE, MaxDistinct, FALSE)>>}

Sheet(name, n, cols) == [name |-> name, n_rows |-> n, columns |-> cols]

\* Row counts around the chunking threshold, for workbooks of two sheets
RowSamples == {0, 1, chunk_size, chunk_size + 1, 2 * chunk_size + 1}

Workbooks ==
    {<<>>}
    \cup {<<Sheet("Sheet1", n, cols)>> : n \in 0..MaxRows, cols \in SheetColumns}
    \cup {<<Sheet("Sheet1", n1, c1), Sheet("Sheet2", n2, c2)>> :
             n1 \in RowSamples, n2 \in RowSamples,
             c1 \in SheetColumns, c2 \in SheetColumns}

NextExcel ==
    \/ /\ ext_pc = "idle"
       /\ \E df \in CsvTables, w \in WriteOutcomes :
              ExcelStage("data.csv", <<df>>, w)
    \/ /\ ext_pc = "idle"
       /\ \E sheets \in Workbooks, w \in WriteOutcomes :
              ExcelStage("book.xlsx", sheets, w)
    \/ /\ IsExcelCall /\ ext_pc = "staged"
       /\ \E built \in 0..Len(AllDocs(uploaded_file)), failed \in BOOLEAN :
              ExcelParse(built, failed)
    \/ ExcelReturn

NextExtract == NextPdf \/ NextExcel

InitExtract == Init /\ selected_model = None

SpecExtract == InitExtract /\ [][NextExtract]_vars

\* The chunks made of the Document at position d of the input, in chunk order
ChunksOf(d) == SelectSeq(chunks, LAMBDA c : c.metadata.doc = d)

\* C12: the chunk_id values of a build are 0, 1, 2, ... without gap or repeat,
\* in the order of the chunks; the chunks follow the input order of their
\* Documents and, within a Document, the order of its pieces, so a chunk of an
\* earlier Document has a smaller chunk_id than any chunk of a later one.
C12_ChunkIdsFollowDocumentOrder ==
    /\ \A i \in 1..Len(chunks) : chunks[i].metadata.chunk_id = i - 1
    /\ \A i, j \in 1..Len(chunks) :
          /\ i < j => chunks[i].metadata.chunk_id < chunks[j].metadata.chunk_id
          /\ chunks[i].metadata.doc < chunks[j].metadata.doc =>
                 chunks[i].metadata.chunk_id < chunks[j].metadata.chunk_id
    /\ \A d \in 1..Len(documents) :
          /\ Len(ChunksOf(d)) = Len(documents[d].pieces)
          /\ \A k \in 1..Len(ChunksOf(d)) :
                ChunksOf(d)[k].page_content = documents[d].pieces[k]

\* Witness of C12: a build of two Documents of two chunks each.
C12_Witness ==
    /\ Len(documents) = 2
    /\ Len(documents[1].pieces) = 2
    /\ Len(documents[2].pieces) = 2
    /\ Len(chunks) = 4
    /\ chunks[3].metadata.doc = 2
    /\ chunks[3].metadata.chunk_id = 2

-----------------------------------------------------------------------------
(* Claims about the extractors *)

Returned == ext_pc = "returned"

\* A Document that carries an error message and the metadata key `error`
IsErrorDocument(d) ==
    /\ "error" \in DOMAIN d.metadata
    /\ d.page_content.kind = "error"
    /\ d.page_content.message = d.metadata.error

OneErrorDocument == Len(ext_result) = 1 /\ IsErrorDocument(ext_result[1])

\* C4 as stated: neither extractor raises, and after a failure at any point
\* inside the extraction the call returns exactly one error Document and
\* nothing else.
C4_AnyFailureGivesOneErrorDocument ==
    /\ ext_pc # "raised"
    /\ (Returned /\ failures # {}) => OneErrorDocument

\* C4 amended: neither extractor raises. extract_from_excel returns exactly one
\* error Document, and none of the Documents built before the failure, after a
\* failure of the staging, the read or the rendering. extract_from_pdf does so
\* only when the staging of the temp file fails; a failure inside a text
\* strategy or the table extraction is caught there, and the call returns the
\* Documents extracted (none of them an error Document) or, when there are
\* none, the one placeholder Document with error = "no_content".
C4_FatalFailureGivesOneErrorDocument ==
    /\ ext_pc # "raised"
    /\ (Returned /\ uploaded_file.fn = "excel" /\ failures # {}) =>
           OneErrorDocument
    /\ (Returned /\ uploaded_file.fn = "pdf" /\ "write_temp" \in failures) =>
           OneErrorDocument
    /\ (Returned /\ uploaded_file.fn = "pdf" /\ "write_temp" \notin failures) =>
           /\ ext_result # <<>>
           /\ \A k \in 1..Len(ext_result) : ~IsErrorDocument(ext_result[k])
           /\ LET extracted == strategy_docs.pdfplumber \o strategy_docs.pypdf
                               \o strategy_docs.ocr \o strategy_docs.tables
              IN IF extracted = <<>>
                 THEN /\ Len(ext_result) = 1
                      /\ ext_result[1].page_content.kind = "no_text"
                      /\ ext_result[1].metadata.error = "no_content"
                 ELSE Len(ext_result) = Len(extracted)

\* Witness of C4: extract_from_excel failed after it had built Documents, and
\* returned the error Document alone.
C4_Witness ==
    /\ Returned
    /\ uploaded_file.fn = "excel"
    /\ failures = {"render"}
    /\ Len(docs) >= 2
    /\ OneErrorDocument

\* C5: the temp file of a call does not exist before the call, and does not
\* exist once the call has returned, on the success path, after an extraction
\* error and after a failed write of the temp file alike.
C5_TempFileRemovedOnEveryExit ==
    /\ ext_pc = "idle" => (~tmp_exists /\ ~tmp_created)
    /\ tmp_exists => tmp_created
    /\ ext_pc \in {"returned", "raised"} => ~tmp_exists

\* Witness of C5: a call that created its temp file and then failed has
\* returned.
C5_Witness ==
    /\ Returned
    /\ tmp_created
    /\ failures # {}
    /\ ~tmp_exists

Rank(method) ==
    CASE method = "pdfplumber" -> 1
      [] method = "pypdf" -> 2
      [] method = "ocr" -> 3
      [] OTHER -> 4

HasRun(method) == \E i \in 1..Len(ran) : ran[i] = method

IsTextDocument(d) ==
    /\ "method" \in DOMAIN d.metadata
    /\ d.metadata.method \in {"pdfplumber", "pypdf", "ocr"}

C13_HeaderIsFirstNonEmptyRow ==
    \A k \in 1..Len(strategy_docs.tables) :
        LET rows == strategy_docs.tables[k].page_content.rows
        IN /\ rows[1].kind = "HEADERS"
           /\ \A i \in 2..Len(rows) :
                 /\ rows[i].kind = "qualified"
                 /\ \A c \in 1..Len(rows[i].pairs) :
                       c <= Len(rows[1].cells) =>
                           rows[i].pairs[c][1] = rows[1].cells[c]

ExcelReturnedDocs ==
    Returned /\ uploaded_file.fn = "excel" /\ failures = {}

HasType(d, t) == "type" \in DOMAIN d.metadata /\ d.metadata.type = t

\* The Documents of the result that belong to the sheet named s
OfSheet(s) ==
    SelectSeq(ext_result,
              LAMBDA d : "sheet" \in DOMAIN d.metadata /\ d.metadata.sheet = s)

\* C7: a sheet of N rows gets exactly one complete-sheet Document; when
\* N > 200 it also gets ceil(N/200) chunk Documents in row order whose ranges
\* (chunk_start, chunk_end) start at 1, end at N, follow one another without
\* gap or overlap, and hold 200 rows each but for the last; when N <= 200 it
\* gets none. For N = 450 the ranges are (1,200), (201,400), (401,450).
C7_SheetChunks ==
    (ExcelReturnedDocs /\ ~IsCsv(uploaded_file.name)) =>
        \A k \in 1..Len(uploaded_file.sheets) :
            LET N == uploaded_file.sheets[k].n_rows
                ds == OfSheet(uploaded_file.sheets[k].name)
                complete == SelectSeq(ds, LAMBDA d : HasType(d, "excel_sheet_complete"))
                cs == SelectSeq(ds, LAMBDA d : HasType(d, "excel_chunk"))
                start(i) == cs[i].metadata.chunk_start
                end(i) == cs[i].metadata.chunk_end
            IN /\ Len(complete) = 1
               /\ complete[1].metadata.rows = N
               /\ Len(ds) = 1 + Len(cs)
               /\ N <= 200 => cs = <<>>
               /\ N > 200 =>
                     /\ Len(cs) = (N + 199) \div 200
                     /\ start(1) = 1
                     /\ end(Len(cs)) = N
                     /\ \A i \in 1..Len(cs) :
                           /\ start(i) <= end(i)
                           /\ cs[i].metadata.rows = end(i) - start(i) + 1
                           /\ i < Len(cs) => /\ cs[i].metadata.rows = 200
                                             /\ start(i + 1) = end(i) + 1
                           /\ cs[i].metadata.rows <= 200
               /\ N = 450 =>
                     [i \in 1..Len(cs) |-> <<start(i), end(i)>>]
                         = << <<1, 200>>, <<201, 400>>, <<401, 450>> >>

\* Witness of C7: a sheet of 450 rows was extracted into one complete-sheet
\* Document and three chunk Documents.
C7_Witness ==
    /\ ExcelReturnedDocs
    /\ ~IsCsv(uploaded_file.name)
    /\ Len(uploaded_file.sheets) = 1
    /\ uploaded_file.sheets[1].n_rows = 450
    /\ Len(ext_result) = 4
    /\ ext_result[4].metadata.chunk_start = 401
    /\ ext_result[4].metadata.chunk_end = 450

\* The first column that is text-valued (of object dtype once missing cells
\* are filled with "") and has fewer than 20 distinct values; 0 if none
FirstGroupable(df) ==
    LET ok == {c \in 1..Len(df.columns) :
                  /\ Dtype(df.columns[c], df.n_rows) = "object"
                  /\ Nunique(df.columns[c], df.n_rows) < 20}
    IN IF ok = {} THEN 0 ELSE CHOOSE c \in ok : \A b \in ok : c <= b

HasNumericColumn(tbl) ==
    \E c \in 1..Len(tbl.columns) : Dtype(tbl.columns[c], tbl.n_rows) = "number"

\* C14: every table the extractor processes, the one CSV table or each sheet of
\* a workbook, that has a numeric column gets exactly one financial_summary
\* Document, which lists TOTAL, AVERAGE and COUNT of every numeric column; a
\* table without a numeric column gets none.
C14_SummaryForEveryNumericTable ==
    ExcelReturnedDocs =>
        LET summaries == SelectSeq(ext_result,
                                   LAMBDA d : HasType(d, "financial_summary"))
            numeric == {t \in 1..Len(uploaded_file.sheets) :
                           HasNumericColumn(uploaded_file.sheets[t])}
        IN /\ Len(summaries) = Cardinality(numeric)
           /\ IsCsv(uploaded_file.name) =>
                 \A k \in 1..Len(summaries) :
                     summaries[k].page_content.total_average_count_of =
                         {c \in 1..Len(uploaded_file.sheets[1].columns) :
                             Dtype(uploaded_file.sheets[1].columns[c],
                                   uploaded_file.sheets[1].n_rows) = "number"}

(***************************************************************************)
(* qa_pipeline.py: process_question_with_rag                               *)
(***************************************************************************)
\* qa_pipeline.py:126  search_kwargs "k"
k == 100

\* The vector_db argument: None, or a Chroma handle on a collection of
\* `count` chunks, numbered 1..count
NoIndex == [is_none |-> TRUE, count |-> 0]
Index(n) == [is_none |-> FALSE, count |-> n]

StrValue(text) == [type |-> "str", text |-> text]

\* qa_pipeline.py:97
UploadFirst == <<"Please upload and process a financial document first.">>

\* qa_pipeline.py:183
ErrorMessage(e) == <<"Error: ", e, ". Please try rephrasing your question.">>

\* The statements of the try block that run before the chain is invoked
BuildSteps == {"ChatOllama", "as_retriever", "from_llm", "from_template"}

\* The steps of rag_chain.invoke
InvokeSteps == {"generate_queries", "similarity_search", "answer"}

\* Mutant of Catches: only a failure of the chain invocation is caught.
Catches_InvokeOnly(step) == step \in InvokeSteps

\* qa_pipeline.py:99,181  everything after the None check is inside the try
\* whose handler is `except Exception`
Catches(step) == TRUE

\* Lines of the reply of the model to the query prompt
Lines == {"", "totals by category", "what is the total?"}
RagQuestions == {"what is the total?"}
Replies == UNION {[1..n -> Lines] : n \in 0..MaxLines}
AnswerTexts == {<<"answer">>, <<"">>}

\* qa_pipeline.py:130-135  the query list of MultiQueryRetriever: the non-empty
\* lines of the reply, and the question itself last (include_original=True)
LineList(reply) == SelectSeq(reply, LAMBDA line : line # "")
QueryList(reply, q) == LineList(reply) \o <<q>>

\* qa_pipeline.py:124-128  the k most similar chunks of a collection of n
\* chunks; `nearest` is the chunk the embedding of the query ranks first, the
\* others follow it in chunk order, cyclically
similarity_search(n, nearest, top) ==
    [i \in 1..Min(top, n) |-> ((nearest - 1 + i - 1) % n) + 1]

RECURSIVE Flatten(_)
Flatten(lists) ==
    IF lists = <<>> THEN <<>> ELSE Head(lists) \o Flatten(Tail(lists))

\* qa_pipeline.py:130-135  unique_union of MultiQueryRetriever: a chunk is
\* kept where it first occurs
unique_union(ds) ==
    LET first == {i \in 1..Len(ds) : \A j \in 1..(i - 1) : ds[j] # ds[i]}
        RECURSIVE Kept(_, _)
        Kept(lo, hi) ==
            IF lo > hi THEN <<>>
            ELSE IF lo = hi THEN (IF lo \in first THEN <<ds[lo]>> ELSE <<>>)
            ELSE LET mid == (lo + hi) \div 2
                 IN Kept(lo, mid) \o Kept(mid + 1, hi)
    IN Kept(1, Len(ds))

\* qa_pipeline.py:88-97  the call and its None check
RagCall(db, q) ==
    /\ rag_pc = "idle"
    /\ vector_db' = db
    /\ question' = q
    /\ IF db.is_none
       THEN /\ rag_result' = StrValue(UploadFirst)
            /\ rag_pc' = "returned"
       ELSE /\ rag_result' = rag_result
            /\ rag_pc' = "try"
    /\ UNCHANGED <<queries, retrieved, context, rag_failure>>
    /\ UNCHANGED outsideRag

\* qa_pipeline.py:99-169  llm, prompts, retriever and chain are built; `step`
\* is the statement that raises, None if none does
BuildChain(step) ==
    /\ rag_pc = "try"
    /\ IF step = None
       THEN rag_pc' = "built" /\ rag_failure' = rag_failure
       ELSE rag_pc' = "failed" /\ rag_failure' = step
    /\ UNCHANGED <<vector_db, question, queries, retrieved, context, rag_result>>
    /\ UNCHANGED outsideRag

\* qa_pipeline.py:172  rag_chain.invoke, first part: the retriever asks the
\* model for queries
GenerateQueries(reply, failed) ==
    /\ rag_pc = "built"
    /\ IF failed
       THEN /\ rag_pc' = "failed"
            /\ rag_failure' = "generate_queries"
            /\ queries' = queries
       ELSE /\ rag_pc' = "search"
            /\ rag_failure' = rag_failure
            /\ queries' = QueryList(reply, question)
    /\ UNCHANGED <<vector_db, question, retrieved, context, rag_result>>
    /\ UNCHANGED outsideRag

\* qa_pipeline.py:172  the retriever runs the next query against the index
Search(nearest, failed) ==
    /\ rag_pc = "search"
    /\ Len(retrieved) < Len(queries)
    /\ IF failed
       THEN /\ rag_pc' = "failed"
            /\ rag_failure' = "similarity_search"
            /\ retrieved' = retrieved
       ELSE /\ rag_pc' = rag_pc
            /\ rag_failure' = rag_failure
            /\ retrieved' = Append(retrieved,
                                   similarity_search(vector_db.count, nearest, k))
    /\ UNCHANGED <<vector_db, question, queries, context, rag_result>>
    /\ UNCHANGED outsideRag

\* qa_pipeline.py:172  the retriever merges what the queries retrieved into the
\* context of the answer prompt
Merge ==
    /\ rag_pc = "search"
    /\ Len(retrieved) = Len(queries)
    /\ context' = unique_union(Flatten(retrieved))
    /\ rag_pc' = "answer"
    /\ UNCHANGED <<vector_db, question, queries, retrieved, rag_failure, rag_result>>
    /\ UNCHANGED outsideRag

\* qa_pipeline.py:165-179  prompt, llm and StrOutputParser produce the answer
Answer(text, failed) ==
    /\ rag_pc = "answer"
    /\ IF failed
       THEN /\ rag_pc' = "failed"
            /\ rag_failure' = "answer"
            /\ rag_result' = rag_result
       ELSE /\ rag_pc' = "done"
            /\ rag_failure' = rag_failure
            /\ rag_result' = StrValue(text)
    /\ UNCHANGED <<vector_db, question, queries, retrieved, context>>
    /\ UNCHANGED outsideRag

\* qa_pipeline.py:179-183  return of the result, or of the error string built
\* by the handler
RagReturn ==
    /\ rag_pc \in {"done", "failed"}
    /\ IF rag_pc = "done"
       THEN rag_pc' = "returned" /\ rag_result' = rag_result
       ELSE IF Catches(rag_failure)
            THEN rag_pc' = "returned" /\ rag_result' = StrValue(ErrorMessage(rag_failure))
            ELSE rag_pc' = "raised" /\ rag_result' = rag_result
    /\ UNCHANGED <<vector_db, question, queries, retrieved, context, rag_failure>>
    /\ UNCHANGED outsideRag

IndexSizes == {0, 1, MaxChunks}

NextRag ==
    \/ rag_pc = "idle" /\
       \E db \in {NoIndex} \cup {Index(n) : n \in IndexSizes}, q \in RagQuestions :
           RagCall(db, q)
    \/ rag_pc = "try" /\ \E step \in BuildSteps \cup {None} : BuildChain(step)
    \/ rag_pc = "built" /\
       \E reply \in Replies, failed \in BOOLEAN : GenerateQueries(reply, failed)
    \/ rag_pc = "search" /\
       \E nearest \in {1, 2}, failed \in BOOLEAN : Search(nearest, failed)
    \/ Merge
    \/ rag_pc = "answer" /\
       \E text \in AnswerTexts, failed \in BOOLEAN : Answer(text, failed)
    \/ RagReturn

InitRag == Init /\ selected_model = None

SpecRag == InitRag /\ [][NextRag]_vars

-----------------------------------------------------------------------------
(* Claims about process_question_with_rag *)

\* C9: process_question_with_rag never raises; whatever step of retrieval or
\* answer generation fails, it returns the error string; called with no index
\* it returns the fixed message asking to upload and process a document; what
\* it returns is always a string.
C9_AlwaysReturnsAString ==
    /\ rag_pc # "raised"
    /\ rag_pc = "returned" =>
          /\ rag_result.type = "str"
          /\ vector_db.is_none =>
                /\ rag_result.text =
                       <<"Please upload and process a financial document first.">>
                /\ queries = <<>> /\ retrieved = <<>>
          /\ rag_failure # None =>
                /\ Len(rag_result.text) = 3
                /\ rag_result.text[1] = "Error: "
                /\ rag_result.text[2] = rag_failure
                /\ rag_result.text[3] = ". Please try rephrasing your question."

\* Witness of C9: a similarity search failed after an earlier query had been
\* run, and the call returned the error string.
C9_Witness ==
    /\ rag_pc = "returned"
    /\ rag_failure = "similarity_search"
    /\ retrieved # <<>>
    /\ rag_result.type = "str"

\* C10: the retriever runs exactly 4 queries, 3 generated ones and the question
\* itself; each retrieves at most 100 chunks; the merged context holds every
\* retrieved chunk exactly once, hence at most 400 chunks.
C10_FourQueriesEachChunkOnce ==
    rag_pc = "answer" =>
        /\ Len(queries) = 4
        /\ queries[Len(queries)] = question
        /\ Len(retrieved) = Len(queries)
        /\ \A i \in 1..Len(retrieved) : Len(retrieved[i]) <= 100
        /\ \A i, j \in 1..Len(context) : i # j => context[i] # context[j]
        /\ {context[i] : i \in 1..Len(context)} =
               UNION {{retrieved[i][j] : j \in 1..Len(retrieved[i])} :
                          i \in 1..Len(retrieved)}
        /\ Len(context) <= 400

(***************************************************************************)
(* excel_extraction.py: _df_to_text, character by character                *)
(* A string is the sequence of its characters. A table is its row count    *)
(* and its columns; a column is its name, its dtype and its cells in row   *)
(* order; a cell holds a number (int64 column) or a string (object column).*)
(***************************************************************************)
TitleOpen == <<"=", "=", "=", " ">>
TitleClose == <<" ", "=", "=", "=">>
TotalRowsLabel ==
    <<"T", "o", "t", "a", "l", " ", "R", "o", "w", "s", ":", " ">>
TotalColumnsLabel ==
    <<"T", "o", "t", "a", "l", " ", "C", "o", "l", "u", "m", "n", "s", ":",
      " ">>
ColumnHeadersLabel ==
    <<"C", "O", "L", "U", "M", "N", " ", "H", "E", "A", "D", "E", "R", "S",
      ":", " ">>
CellSeparator == <<" ", "|", " ">>
NumericalSummaryLine ==
    <<"=", "=", "=", " ", "N", "U", "M", "E", "R", "I", "C", "A", "L", " ",
      "S", "U", "M", "M", "A", "R", "Y", " ", "=", "=", "=">>
TotalLabel == <<":", " ", "T", "O", "T", "A", "L", "=">>
AverageLabel == <<",", " ", "A", "V", "E", "R", "A", "G", "E", "=">>
CountLabel == <<",", " ", "C", "O", "U", "N", "T", "=">>
MinLabel == <<",", " ", "M", "I", "N", "=">>
MaxLabel == <<",", " ", "M", "A", "X", "=">>
CategoricalSummaryLine ==
    <<"=", "=", "=", " ", "C", "A", "T", "E", "G", "O", "R", "I", "C", "A",
      "L", " ", "S", "U", "M", "M", "A", "R", "Y", " ", "=", "=", "=">>
UniqueValuesLabel ==
    <<" ", "u", "n", "i", "q", "u", "e", " ", "v", "a", "l", "u", "e", "s">>
OccurrencesLabel ==
    <<" ", "o", "c", "c", "u", "r", "r", "e", "n", "c", "e", "s">>
AllDataRowsLine ==
    <<"=", "=", "=", " ", "A", "L", "L", " ", "D", "A", "T", "A", " ", "R",
      "O", "W", "S", " ", "=", "=", "=">>
RowLabel == <<"R", "o", "w", " ">>
CsvTitle ==
    <<"C", "o", "m", "p", "l", "e", "t", "e", " ", "C", "S", "V", " ", "D",
      "a", "t", "a", "s", "e", "t">>

\* sep.join(parts)
RECURSIVE Join(_, _)
Join(parts, sep) ==
    IF parts = <<>> THEN <<>>
    ELSE IF Len(parts) = 1 THEN parts[1]
    ELSE parts[1] \o sep \o Join(Tail(parts), sep)

Digit(d) == <<"0", "1", "2", "3", "4", "5", "6", "7", "8", "9">>[d + 1]

\* str(n) of a non-negative integer
RECURSIVE IntStr(_)
IntStr(n) == IF n < 10 THEN <<Digit(n)>> ELSE IntStr(n \div 10) \o <<Digit(n % 10)>>

\* excel_extraction.py:34  f"{v:.2f}" of the non-negative value num/den: the
\* nearest hundredth (a tie, which needs 8 rows or more, goes to the even one)
Fixed2(num, den) ==
    LET q == (num * 100) \div den
        r == (num * 100) % den
        cents == IF 2 * r > den \/ (2 * r = den /\ q % 2 = 1) THEN q + 1 ELSE q
    IN IntStr(cents \div 100) \o <<".", Digit((cents \div 10) % 10), Digit(cents % 10)>>

TextCell(cs) == [is_num |-> FALSE, num |-> 0, chars |-> cs]
NumCell(n) == [is_num |-> TRUE, num |-> n, chars |-> <<>>]

\* excel_extraction.py:52  str(row[col])
CellStr(cell) == IF cell.is_num THEN IntStr(cell.num) ELSE cell.chars

\* excel_extraction.py:12  df.empty
IsEmpty(table) == table.n_rows = 0 \/ table.columns = <<>>

\* excel_extraction.py:15-22
HeaderLines(table, ttl) ==
    <<TitleOpen \o ttl \o TitleClose,
      TotalRowsLabel \o IntStr(table.n_rows),
      TotalColumnsLabel \o IntStr(Len(table.columns)),
      <<>>,
      ColumnHeadersLabel \o
          Join([c \in 1..Len(table.columns) |-> table.columns[c].name], CellSeparator),
      <<>> >>

RECURSIVE SumOf(_)
SumOf(cells) == IF cells = <<>> THEN 0 ELSE Head(cells).num + SumOf(Tail(cells))

MinOf(cells) ==
    CHOOSE m \in {cells[i].num : i \in 1..Len(cells)} :
        \A i \in 1..Len(cells) : m <= cells[i].num

MaxOf(cells) ==
    CHOOSE m \in {cells[i].num : i \in 1..Len(cells)} :
        \A i \in 1..Len(cells) : m >= cells[i].num

\* excel_extraction.py:29-34  the summary line of one numeric column
NumericLine(col) ==
    col.name \o TotalLabel \o Fixed2(SumOf(col.values), 1)
             \o AverageLabel \o Fixed2(SumOf(col.values), Len(col.values))
             \o CountLabel \o IntStr(Len(col.values))
             \o MinLabel \o Fixed2(MinOf(col.values), 1)
             \o MaxLabel \o Fixed2(MaxOf(col.values), 1)

\* The columns of a dtype, in column order
ColumnsOf(table, dtype) ==
    SelectSeq(table.columns, LAMBDA col : col.dtype = dtype)

\* excel_extraction.py:25-35
NumericSummary(table) ==
    LET numeric_cols == ColumnsOf(table, "int64")
    IN IF numeric_cols = <<>> THEN <<>>
       ELSE <<NumericalSummaryLine>>
            \o [c \in 1..Len(numeric_cols) |-> NumericLine(numeric_cols[c])]
            \o << <<>> >>

\* excel_extraction.py:42-43  the distinct values of a column, in the order of
\* their first occurrence
RECURSIVE Distinct(_, _)
Distinct(cells, seen) ==
    IF cells = <<>> THEN seen
    ELSE Distinct(Tail(cells),
                  IF \E i \in 1..Len(seen) : seen[i] = Head(cells)
                  THEN seen ELSE Append(seen, Head(cells)))

Occurrences(cells, v) == Cardinality({i \in 1..Len(cells) : cells[i] = v})

\* excel_extraction.py:43  value_counts().head(10): the distinct values by
\* falling count, equal counts in the order of first occurrence
value_counts(cells) ==
    LET ds == Distinct(cells, <<>>)
        place(i) ==
            1 + Cardinality({j \in 1..Len(ds) :
                    \/ Occurrences(cells, ds[j]) > Occurrences(cells, ds[i])
                    \/ (j < i /\ Occurrences(cells, ds[j]) = Occurrences(cells, ds[i]))})
        sorted == [p \in 1..Len(ds) |-> ds[CHOOSE i \in 1..Len(ds) : place(i) = p]]
    IN SubSeq(sorted, 1, Min(10, Len(sorted)))

\* excel_extraction.py:42-46  the summary lines of one object column
CategoricalLines(col) ==
    LET top_values == value_counts(col.values)
    IN <<col.name \o <<":", " ">> \o IntStr(Len(Distinct(col.values, <<>>)))
                  \o UniqueValuesLabel>>
       \o [v \in 1..Len(top_values) |->
              <<" ", " ">> \o CellStr(top_values[v]) \o <<":", " ">>
                  \o IntStr(Occurrences(col.values, top_values[v]))
                  \o OccurrencesLabel]

\* excel_extraction.py:38-47
CategoricalSummary(table) ==
    LET text_cols == ColumnsOf(table, "object")
    IN IF text_cols = <<>> THEN <<>>
       ELSE <<CategoricalSummaryLine>>
            \o Flatten([c \in 1..Len(text_cols) |-> CategoricalLines(text_cols[c])])
            \o << <<>> >>

\* excel_extraction.py:52-53  the line of row i (1-based)
RowLine(table, i) ==
    RowLabel \o IntStr(i) \o <<":", " ">>
    \o Join([c \in 1..Len(table.columns) |->
                table.columns[c].name \o <<":">> \o CellStr(table.columns[c].values[i])],
            CellSeparator)

\* excel_extraction.py:50-53
DataRows(table) ==
    <<AllDataRowsLine>> \o [i \in 1..table.n_rows |-> RowLine(table, i)]

\* excel_extraction.py:15-53  the list `lines`
DfToTextLines(table, ttl) ==
    HeaderLines(table, ttl) \o NumericSummary(table) \o CategoricalSummary(table)
    \o DataRows(table)

\* excel_extraction.py:10-55  _df_to_text(df, title)
DfToText(table, ttl) ==
    IF IsEmpty(table) THEN <<>>
    ELSE Join(DfToTextLines(table, ttl), <<"\n">>)

\* excel_extraction.py:10-55  one call
DfToTextCall(table, ttl) ==
    /\ render_pc = "idle"
    /\ render_df' = table
    /\ render_title' = ttl
    /\ render_text' = DfToText(table, ttl)
    /\ render_pc' = "returned"
    /\ UNCHANGED outsideRender

\* Cells of an object column: plain strings, the "" that fillna puts in a
\* missing cell, and strings holding the characters the rendering uses itself
TextCells ==
    {TextCell(<<"x">>), TextCell(<<"y">>), TextCell(<<>>),
     TextCell(<<"x", " ", "|", " ", "y", ":", "z">>),
     TextCell(<<"x", "\n", "y">>)}

NumCells == {NumCell(1), NumCell(12)}

ColumnNames == <<<<"a">>, <<"b">>, <<"c">>>>

\* The columns a table of n rows may hold at position c
ColumnsAt(c, n) ==
    {[name |-> ColumnNames[c], dtype |-> "object", values |-> vs] :
        vs \in [1..n -> TextCells]}
    \cup {[name |-> ColumnNames[c], dtype |-> "int64", values |-> vs] :
             vs \in [1..n -> NumCells]}

RECURSIVE ColumnSeqs(_, _)
ColumnSeqs(width, n) ==
    IF width = 0 THEN {<<>>}
    ELSE {Append(cols, col) : cols \in ColumnSeqs(width - 1, n),
                              col \in ColumnsAt(width, n)}

SampleTables ==
    {[n_rows |-> 0, columns |-> <<>>]}
    \cup UNION {{[n_rows |-> n, columns |-> cols] : cols \in ColumnSeqs(w, n)} :
                   n \in 0..MaxTableRows, w \in 1..MaxTableCols}

NextRender ==
    /\ render_pc = "idle"
    /\ \E table \in SampleTables : DfToTextCall(table, CsvTitle)

InitRender == Init /\ selected_model = None

SpecRender == InitRender /\ [][NextRender]_vars

-----------------------------------------------------------------------------
(* Claims about _df_to_text *)

\* s split at every occurrence of sep, as s.split(sep) does
RECURSIVE SplitOn(_, _)
SplitOn(s, sep) ==
    LET hits == {i \in 1..(Len(s) - Len(sep) + 1) :
                    SubSeq(s, i, i + Len(sep) - 1) = sep}
    IN IF hits = {} THEN <<s>>
       ELSE LET i == CHOOSE h \in hits : \A g \in hits : h <= g
            IN <<SubSeq(s, 1, i - 1)>> \o SplitOn(SubSeq(s, i + Len(sep), Len(s)), sep)

IsDigit(c) == c \in {"0", "1", "2", "3", "4", "5", "6", "7", "8", "9"}

\* The position of the ": " that ends the `Row <n>` prefix of a line, 0 if the
\* line does not begin with `Row <n>: `
PrefixEnd(line) ==
    LET ends == {i \in 6..(Len(line) - 1) :
                    /\ SubSeq(line, 1, 4) = RowLabel
                    /\ \A j \in 5..(i - 1) : IsDigit(line[j])
                    /\ line[i] = ":" /\ line[i + 1] = " "}
    IN IF ends = {} THEN 0 ELSE CHOOSE i \in ends : TRUE

\* The cells of a row line: the text after the prefix, split at " | ", each
\* part split at its first ":" into a column name and a value
ParsedCells(line) ==
    LET parts == SplitOn(SubSeq(line, PrefixEnd(line) + 2, Len(line)), CellSeparator)
    IN [p \in 1..Len(parts) |->
           LET colon == {i \in 1..Len(parts[p]) : parts[p][i] = ":"}
               at == IF colon = {} THEN Len(parts[p]) + 1
                     ELSE CHOOSE i \in colon : \A j \in colon : i <= j
           IN [col |-> SubSeq(parts[p], 1, at - 1),
               val |-> SubSeq(parts[p], at + 1, Len(parts[p])),
               has_colon |-> colon # {}]]

\* A line of the form `Row <n>: col:val | ...`
IsRowLine(line) ==
    /\ PrefixEnd(line) # 0
    /\ \A p \in 1..Len(ParsedCells(line)) : ParsedCells(line)[p].has_colon

\* The <n> of a row line, as the digits it is written with
RowNumber(line) == SubSeq(line, 5, PrefixEnd(line) - 1)

\* C11: for a non-empty table the text holds exactly len(T) lines of the form
\* `Row <n>: col:val | ...`, numbered 1..len(T) in row order, and parsing them
\* gives back, for each row, every column name with the string of its cell;
\* for an empty table the text is the empty string.
C11_RowLinesRoundTrip ==
    render_pc = "returned" =>
        IF render_df.n_rows = 0
        THEN render_text = <<>>
        ELSE LET rows == SelectSeq(SplitOn(render_text, <<"\n">>), IsRowLine)
             IN /\ Len(rows) = render_df.n_rows
                /\ \A i \in 1..Len(rows) :
                      /\ RowNumber(rows[i]) = IntStr(i)
                      /\ Len(ParsedCells(rows[i])) = Len(render_df.columns)
                      /\ \A c \in 1..Len(ParsedCells(rows[i])) :
                            /\ ParsedCells(rows[i])[c].col = render_df.columns[c].name
                            /\ ParsedCells(rows[i])[c].val =
                                   CellStr(render_df.columns[c].values[i])

=============================================================================
